---- MODULE Spec2Model ----
(***************************************************************************)
(* Model of the dynamic DNS client: the pool of public-IP sources          *)
(* (publicip.py: PublicIpSource, MyPublicIP) with their TTL, back-off and  *)
(* disable policy, and the round-robin selection among them.               *)
(*                                                                         *)
(* Time.  The code reads datetime.utcnow().timestamp(), a float number of  *)
(* seconds.  The back-off is 1.5^k seconds, a multiple of 1/2^k second, so *)
(* every timestamp of the model is an integer number of ticks of           *)
(* 1/2^MaxThrottle second: all sums the code computes are exact.  The      *)
(* clock itself is sampled at whole seconds.                               *)
(*                                                                         *)
(* Text.  A response body is a sequence of tokens: a natural number is a   *)
(* run of decimal digits, the negative numbers of Tok are punctuation,     *)
(* white space and words.                                                  *)
(***************************************************************************)
EXTENDS Integers, Sequences, FiniteSets, TLC

VARIABLES
    now,             \* the wall clock, in ticks
    sources,         \* MyPublicIP._public_ip_api_sources: Seq of PublicIpSource
    next_api_index,  \* MyPublicIP._next_api_index (0-based, None before first use)
    pc,              \* position inside MyPublicIP.get_my_public_ip: idle/select/poll
    cur,             \* 0-based index of the source returned by the last selection
    lastPoll,        \* observation of the most recent PublicIpSource.get_my_public_ip call
    lastSel,         \* observation of the most recent MyPublicIP._get_next_ip_source call
    rr,              \* the composite calls made one after the other since construction
    lastCall,        \* how MyPublicIP.get_my_public_ip was left, in the state it was left in
    client,          \* the DynDnsClient with its GoogleAuthHelper
    lastUpdate,      \* observation of the most recent DynDnsClient.update_dns_record call
    inv,             \* the polls of the invocation of MyPublicIP.get_my_public_ip entered last
    driver           \* the loop of main.dyn_dns_client: position, locals, metric logged

vars == <<now, sources, next_api_index, pc, cur, lastPoll, lastSel, rr,
          lastCall, client, lastUpdate, inv, driver>>

\* The variables of the DynDnsClient.
clientVars == <<client, lastUpdate>>

----------------------------------------------------------------------------
\* Bounds of the model

MaxThrottle == 10      \* largest consecutive_http_429_count that is followed
MaxErrors == 3         \* largest consecutive_error_count followed by SpecSource
MaxNow == 5            \* last second of the clock in SpecSource
PoolErrors == 2        \* largest consecutive_error_count followed by Spec
PoolHorizon == 3       \* last second of the clock in Spec
ClientStartSec == 2    \* second at which the DynDnsClient is constructed
ClientHorizon == 5     \* last second of the clock in SpecClient
TokenLifeSecs == 2     \* seconds for which a fetched ID token is valid
ThrottleStep == 8       \* seconds between two readings of the clock in SpecThrottle
ThrottleHorizon == 160  \* last second of the clock in SpecThrottle
StartSec == 1          \* second at which the sources are constructed
DriverStartSec == 1000 \* second at which the driver starts, past every TTL
DriverCycles == 2      \* cycles of the driver loop that are followed

----------------------------------------------------------------------------
\* Values

None == -1                       \* Python None in an integer-valued field
NoIp == <<>>                     \* Python None where an IP address is expected
TicksPerSec == 2 ^ MaxThrottle   \* ticks in one second
NoResponse == 0                  \* requests.get raised: there is no response object
HttpOutcomes == {200, 429, 500, NoResponse}
DefaultMaxInactiveSecs == 2592000  \* datetime.timedelta(days=30).total_seconds()
TtlSecs == {0, 2}
MaxInactiveSecs == {2, DefaultMaxInactiveSecs}

Tok == [dot |-> -1, colon |-> -2, ws |-> -3, nl |-> -4, word |-> -5,
        hex |-> -6, current_ip_address |-> -7]

Quad(a, b, c, d) == <<a, Tok.dot, b, Tok.dot, c, Tok.dot, d>>

V6Text == <<Tok.hex, Tok.colon, Tok.hex, Tok.colon, Tok.hex, Tok.colon, Tok.hex, Tok.colon,
            Tok.hex, Tok.colon, Tok.hex, Tok.colon, Tok.hex, Tok.colon, Tok.hex>>

\* The response bodies the HTTP server may send with a 2xx status.
Payloads ==
    { Quad(31, 16, 44, 203),                       \* "31.16.44.203"
      Quad(31, 16, 44, 203) \o <<Tok.nl>>,         \* "31.16.44.203\n"
      Quad(127, 0, 0, 1),                          \* loopback
      Quad(10, 0, 0, 5),                           \* private
      Quad(203, 0, 113, 5),                        \* TEST-NET-3, reserved for documentation
      Quad(31, 16, 441, 203),                      \* not an address
      <<Tok.word, Tok.ws, Tok.word>>,              \* "Random text"
      V6Text,                                      \* "2ff8:fe54:2ea9:f21b:530f:c230:b4b8:d952"
      <<Tok.word, Tok.current_ip_address>> \o Quad(31, 16, 44, 203) \o <<Tok.word>> }

\* The response bodies followed when a pool of sources is polled.
PoolPayloads == { Quad(31, 16, 44, 203), Quad(127, 0, 0, 1) }

----------------------------------------------------------------------------
\* Text and address functions

IsSpace(tok) == tok = Tok.ws \/ tok = Tok.nl

RECURSIVE lstrip(_)
lstrip(text) ==
    IF text # <<>> /\ IsSpace(Head(text)) THEN lstrip(Tail(text)) ELSE text

RECURSIVE rstrip(_)
rstrip(text) ==
    IF text # <<>> /\ IsSpace(text[Len(text)])
    THEN rstrip(SubSeq(text, 1, Len(text) - 1))
    ELSE text

\* str.strip()
strip(text) == rstrip(lstrip(text))

\* ipaddress.ip_address(s): [ok, version, o]; ok = FALSE stands for ValueError.
BadAddress == [ok |-> FALSE, version |-> 0, o |-> <<>>]

ip_address(s) ==
    IF /\ Len(s) = 7
       /\ \A k \in {2, 4, 6} : s[k] = Tok.dot
       /\ \A k \in {1, 3, 5, 7} : s[k] >= 0 /\ s[k] <= 255
    THEN [ok |-> TRUE, version |-> 4, o |-> <<s[1], s[3], s[5], s[7]>>]
    ELSE IF /\ Len(s) = 15
            /\ \A k \in 1..15 : s[k] = (IF k % 2 = 0 THEN Tok.colon ELSE Tok.hex)
    THEN [ok |-> TRUE, version |-> 6, o |-> <<>>]
    ELSE BadAddress

\* IPv4Address.is_private: the address lies in one of the IANA special-purpose blocks.
is_private(o) ==
    \/ o[1] = 0
    \/ o[1] = 10
    \/ o[1] = 127
    \/ o[1] = 169 /\ o[2] = 254
    \/ o[1] = 172 /\ o[2] >= 16 /\ o[2] <= 31
    \/ o[1] = 192 /\ o[2] = 0 /\ o[3] = 0 /\ o[4] <= 7
    \/ o[1] = 192 /\ o[2] = 0 /\ o[3] = 0 /\ o[4] \in {170, 171}
    \/ o[1] = 192 /\ o[2] = 0 /\ o[3] = 2
    \/ o[1] = 192 /\ o[2] = 168
    \/ o[1] = 198 /\ o[2] \in {18, 19}
    \/ o[1] = 198 /\ o[2] = 51 /\ o[3] = 100
    \/ o[1] = 203 /\ o[2] = 0 /\ o[3] = 113
    \/ o[1] >= 240

\* ip.is_global; the IPv6 sample address is a global unicast address.
is_global(ip) ==
    IF ip.version = 4
    THEN ~(ip.o[1] = 100 /\ ip.o[2] >= 64 /\ ip.o[2] <= 127) /\ ~is_private(ip.o)
    ELSE TRUE

\* ValidPublicIp without the is_global test.
ValidPublicIp_AnyIPv4(s) ==
    LET ip == ip_address(s) IN
    IF ~ip.ok THEN NoIp
    ELSE IF ip.version # 4 THEN NoIp
    ELSE ip.o

\* publicip.py:147-156: the address test of a poll; NoIp stands for the ValueError path.
ValidPublicIp(s) ==
    LET ip == ip_address(s) IN
    IF ~ip.ok THEN NoIp
    ELSE IF ~is_global(ip) \/ ip.version # 4 THEN NoIp
    ELSE ip.o

\* The extraction strategies of publicipsources.py: [raised, value].
\* "strip" is lambda response: response.strip().  "dyndns_re" is the lambda that
\* calls _get_ip_with_re(response_payload, _dyn_dns_org_re): the function takes
\* three positional parameters (self, response_payload, exp), so the call raises
\* TypeError for every payload.
get_ip_routine(routine, text) ==
    IF routine = "strip"
    THEN [raised |-> FALSE, value |-> strip(text)]
    ELSE [raised |-> TRUE, value |-> <<>>]

Routines == {"strip", "dyndns_re"}

----------------------------------------------------------------------------
\* PublicIpSource

\* PublicIpSource.__init__ at time t
NewSource(ttl, max_inactive, routine, t) ==
    [ enabled |-> TRUE,
      ttl_sec |-> ttl,
      max_inactive_secs |-> max_inactive,
      get_ip_routine |-> routine,
      last_poll_timestamp |-> None,
      next_poll_timestamp |-> 0,
      last_successful_poll |-> None,
      consecutive_http_error_count |-> 0,
      consecutive_http_429_count |-> 0,
      consecutive_error_count |-> 0,
      epoch_timestamp |-> t ]

\* back_off_time with a factor of 2.
back_off_time_Doubling(k) == (2 ^ k) * TicksPerSec

\* pow(_backoff_factor, k) with _backoff_factor = 1.5, in ticks
back_off_time(k) == (3 ^ k) * (2 ^ (MaxThrottle - k))

\* ticks > secs seconds, computed in seconds: thirty days of ticks exceed
\* the integers of the model checker.
LongerThan(ticks, secs) ==
    \/ ticks \div TicksPerSec > secs
    \/ ticks \div TicksPerSec = secs /\ ticks % TicksPerSec # 0

\* self._last_successful_poll or self._epoch_timestamp: None and 0 are falsy
start_time(s) ==
    IF s.last_successful_poll # None /\ s.last_successful_poll # 0
    THEN s.last_successful_poll
    ELSE s.epoch_timestamp

\* PublicIpSource._check_for_expiration
check_for_expiration(s, t) ==
    IF LongerThan(t - start_time(s), s.max_inactive_secs)
    THEN [s EXCEPT !.next_poll_timestamp = None, !.enabled = FALSE]
    ELSE s

\* PollRejected without the TTL test.
PollRejected_IgnoresTtl(s, t) == ~s.enabled

\* PollRejected that still rejects at the instant the TTL expires.
PollRejected_AtExpiry(s, t) ==
    IF ~s.enabled THEN TRUE ELSE t <= s.next_poll_timestamp

\* The two early returns of get_my_public_ip: a disabled source, an unexpired TTL.
PollRejected(s, t) ==
    IF ~s.enabled THEN TRUE ELSE t < s.next_poll_timestamp

\* The timestamps every attempt sets before the request.
BeginAttempt(s, t) ==
    [s EXCEPT !.last_poll_timestamp = t,
              !.next_poll_timestamp = t + s.ttl_sec * TicksPerSec]

\* HttpErrorBranch whose 429 branch leaves consecutive_http_error_count alone.
HttpErrorBranch_KeepsHttpErrors(s, t, http) ==
    IF http = 429
    THEN [s EXCEPT !.consecutive_http_429_count = @ + 1,
                   !.next_poll_timestamp =
                       t + s.ttl_sec * TicksPerSec
                         + back_off_time(s.consecutive_http_429_count + 1)]
    ELSE [s EXCEPT !.consecutive_http_429_count = 0,
                   !.consecutive_http_error_count = @ + 1]

\* HttpErrorBranch whose 429 branch counts the 429 as an HTTP error as well.
HttpErrorBranch_CountsThrottle(s, t, http) ==
    IF http = 429
    THEN [s EXCEPT !.consecutive_http_429_count = @ + 1,
                   !.consecutive_http_error_count = @ + 1,
                   !.next_poll_timestamp =
                       t + s.ttl_sec * TicksPerSec
                         + back_off_time(s.consecutive_http_429_count + 1)]
    ELSE [s EXCEPT !.consecutive_http_429_count = 0,
                   !.consecutive_http_error_count = @ + 1]

\* HttpErrorBranch whose other branch leaves consecutive_http_429_count alone.
HttpErrorBranch_Keeps429(s, t, http) ==
    IF http = 429
    THEN [s EXCEPT !.consecutive_http_429_count = @ + 1,
                   !.consecutive_http_error_count = 0,
                   !.next_poll_timestamp =
                       t + s.ttl_sec * TicksPerSec
                         + back_off_time(s.consecutive_http_429_count + 1)]
    ELSE [s EXCEPT !.consecutive_http_error_count = @ + 1]

\* The except branch of the HTTP request, once response.status_code was read.
HttpErrorBranch(s, t, http) ==
    IF http = 429
    THEN [s EXCEPT !.consecutive_http_429_count = @ + 1,
                   !.consecutive_http_error_count = 0,
                   !.next_poll_timestamp =
                       t + s.ttl_sec * TicksPerSec
                         + back_off_time(s.consecutive_http_429_count + 1)]
    ELSE [s EXCEPT !.consecutive_http_429_count = 0,
                   !.consecutive_http_error_count = @ + 1]

\* HttpSuccessReset that leaves the two counters alone.
HttpSuccessReset_Keeps(s) == s

\* The counters reset once the request has succeeded.
HttpSuccessReset(s) ==
    [s EXCEPT !.consecutive_http_429_count = 0,
              !.consecutive_http_error_count = 0]

\* SuccessBranch that leaves consecutive_error_count alone.
SuccessBranch_KeepsErrors(s, t) ==
    [s EXCEPT !.last_successful_poll = t]

\* The end of a fully successful poll.
SuccessBranch(s, t) ==
    [s EXCEPT !.last_successful_poll = t,
              !.consecutive_error_count = 0]

\* The result of a call: the source afterwards, the value returned, whether an
\* exception left the method, and the number of HTTP requests made.
Result(s, ret, raised, requests) ==
    [src |-> s, ret |-> ret, raised |-> raised, requests |-> requests]

\* CountError that counts nothing.
CountError_Skips(s) == s

\* The first statement of each of the three except branches.
CountError(s) == [s EXCEPT !.consecutive_error_count = @ + 1]

\* get_my_public_ip from the request on, at time t, when the request ends as
\* http (a status, or NoResponse) with body text.
Attempt(s, t, http, text) ==
    LET s1 == BeginAttempt(s, t)
        s2 == CountError(s1)
        s3 == HttpSuccessReset(s1)
        extracted == get_ip_routine(s.get_ip_routine, text)
        failed == check_for_expiration(CountError(s3), t)
    IN
    IF http = NoResponse
    THEN \* requests.get raised: the handler counts the error and then reads
         \* response.status_code of a name that was never bound: UnboundLocalError
         Result(s2, NoIp, TRUE, 1)
    ELSE IF http >= 400
    THEN Result(check_for_expiration(HttpErrorBranch(s2, t, http), t), NoIp, FALSE, 1)
    ELSE IF extracted.raised
    THEN Result(failed, NoIp, FALSE, 1)
    ELSE IF ValidPublicIp(extracted.value) = NoIp
    THEN Result(failed, NoIp, FALSE, 1)
    ELSE Result(SuccessBranch(s3, t), ValidPublicIp(extracted.value), FALSE, 1)

\* get_my_public_ip that tests the TTL alone and takes a source whose poll is
\* attempted back into service.
PublicIpSource_get_my_public_ip_Reenables(s, t, http, text) ==
    IF t < s.next_poll_timestamp
    THEN Result(s, NoIp, FALSE, 0)
    ELSE Attempt([s EXCEPT !.enabled = TRUE], t, http, text)

\* PublicIpSource.get_my_public_ip at time t
PublicIpSource_get_my_public_ip(s, t, http, text) ==
    IF PollRejected(s, t)
    THEN Result(s, NoIp, FALSE, 0)
    ELSE Attempt(s, t, http, text)

----------------------------------------------------------------------------
\* MyPublicIP

\* The for loop of MyPublicIP._get_next_ip_source from position cnt on.
\* Comparing the next_poll_timestamp None of a disabled source with a float
\* raises TypeError.
RECURSIVE ScanSources(_, _, _, _)
ScanSources(srcs, start, cnt, t) ==
    IF cnt >= Len(srcs)
    THEN [ret |-> None, index |-> start, raised |-> FALSE]
    ELSE LET index == (start + cnt) % Len(srcs)
             ip_source == srcs[index + 1]
         IN IF ip_source.next_poll_timestamp = None
            THEN [ret |-> None, index |-> start, raised |-> TRUE]
            ELSE IF ip_source.next_poll_timestamp <= t /\ ip_source.enabled
            THEN [ret |-> index, index |-> (start + 1) % Len(srcs), raised |-> FALSE]
            ELSE ScanSources(srcs, start, cnt + 1, t)

\* get_next_ip_source that leaves the index where the scan started.
get_next_ip_source_KeepsIndex(srcs, api_index, r, t) ==
    IF Len(srcs) < 1
    THEN [ret |-> None, index |-> api_index, raised |-> FALSE]
    ELSE LET start == IF api_index = None THEN r ELSE api_index
         IN [ScanSources(srcs, start, 0, t) EXCEPT !.index = start]

\* MyPublicIP._get_next_ip_source at time t; r is the value random.randint
\* yields when the index is not yet initialised.
get_next_ip_source(srcs, api_index, r, t) ==
    IF Len(srcs) < 1
    THEN [ret |-> None, index |-> api_index, raised |-> FALSE]
    ELSE ScanSources(srcs, IF api_index = None THEN r ELSE api_index, 0, t)

----------------------------------------------------------------------------
\* DynDnsClient

\* The addresses the client is called with and the resolver may answer.
ClientIps == { <<31, 16, 44, 203>>, <<31, 16, 44, 204>> }

\* The values of dns_cache_ttl_sec.
CacheTtlSecs == {0, 2}

\* What the resolver finds for the hostname: one A record, no record, more
\* than one record, or a failure of the query (NXDOMAIN, timeout).
DnsAnswers ==
    { [kind |-> "one", ip |-> a] : a \in ClientIps }
        \cup { [kind |-> k, ip |-> NoIp] : k \in {"none", "many", "fail"} }

\* What fetching an ID token ends in: a valid token, a token that is expired
\* or not valid, or an exception of the Google library.
AuthOutcomes == {"token", "invalid", "error"}

\* What the POST ends in: a 2xx response, another status, no response.
PostOutcomes == {"ok", "status", "transport"}

\* DynDnsClient.__init__ with a GoogleAuthHelper; id_token is the time at
\* which the token held expires, None without a token.
NewClient(ttl) ==
    [ current_ip |-> NoIp, last_dns_query_timestamp |-> 0,
      dns_cache_ttl_sec |-> ttl, id_token |-> None ]

\* exploded that writes the four numbers in the reverse order.
exploded_Reversed(ip) == Quad(ip[4], ip[3], ip[2], ip[1])

\* IPv4Address.exploded: the dotted quad of an address.
exploded(ip) == Quad(ip[1], ip[2], ip[3], ip[4])

\* CacheUpdate that leaves the address whatever became of the POST.
CacheUpdate_Never(c, ipv4, success) == c

\* CacheUpdate that stores the address whatever became of the POST.
CacheUpdate_Always(c, ipv4, success) == [c EXCEPT !.current_ip = ipv4]

\* if success: self._current_ip = ipv4
CacheUpdate(c, ipv4, success) ==
    IF success THEN [c EXCEPT !.current_ip = ipv4] ELSE c

\* The JSON body of the POST.
PostData(ipv4) ==
    [ zone_name |-> "zone_name", zone_dns_name |-> "zone_dns_name",
      hostname |-> "hostname", ip_address |-> ipv4 ]

\* The value of an expression of the code, or the exception it raised.
Value(v) == [value |-> v, raised |-> FALSE, error |-> "none"]
Raised(e) == [value |-> NoIp, raised |-> TRUE, error |-> e]

\* resolve that answers None for more than one record.
resolve_NoneForMany(dns) ==
    IF dns.kind = "fail" THEN Raised("DNSException")
    ELSE IF dns.kind = "one" THEN Value(dns.ip)
    ELSE Value(NoIp)

\* PythonDnsResolverWrapper.resolve: ValueError for more than one record,
\* None without a record; the exceptions of dns.resolver are passed on.
resolve(dns) ==
    IF dns.kind = "fail" THEN Raised("DNSException")
    ELSE IF dns.kind = "many" THEN Raised("ValueError")
    ELSE IF dns.kind = "none" THEN Value(NoIp)
    ELSE Value(dns.ip)

\* DynDnsClient._query_dns: the log line after the query reads ipv4.exploded,
\* an AttributeError when the resolver returned None.
query_dns(dns) ==
    LET ipv4 == resolve(dns) IN
    IF ~ipv4.raised /\ ipv4.value = NoIp THEN Raised("AttributeError") ELSE ipv4

\* CacheExpired that finds the cache expired at every call.
CacheExpired_Always(c, t) == TRUE

\* The cache test of update_dns_record.
CacheExpired(c, t) ==
    (t - c.last_dns_query_timestamp) >= c.dns_cache_ttl_sec * TicksPerSec

\* Unchanged that never finds the address unchanged.
Unchanged_Never(c, ipv4) == FALSE

\* The comparison of update_dns_record.
Unchanged(c, ipv4) == c.current_ip = ipv4

\* TokenMissing that takes every token, and none, for a token in force.
TokenMissing_Never(c, t) == FALSE

\* id_token is None or id_token.expired
TokenMissing(c, t) == c.id_token = None \/ c.id_token <= t

\* authenticate that goes on without a token when none could be fetched.
authenticate_GoesOn(c, t, auth) ==
    [ client |-> c, fetches |-> IF TokenMissing(c, t) THEN 1 ELSE 0,
      raised |-> FALSE, error |-> "none" ]

\* GoogleAuthHelper.authenticate at time t, a fetch ending as auth: the
\* client afterwards, the number of fetches, and whether it raised, which
\* _id_token.apply does on the None that _get_id_token returns for a token
\* that is not valid.
authenticate(c, t, auth) ==
    IF ~TokenMissing(c, t)
    THEN [client |-> c, fetches |-> 0, raised |-> FALSE, error |-> "none"]
    ELSE IF auth = "error"
    THEN [client |-> c, fetches |-> 1, raised |-> TRUE, error |-> "GoogleAuthError"]
    ELSE IF auth = "invalid"
    THEN [client |-> [c EXCEPT !.id_token = None], fetches |-> 1,
          raised |-> TRUE, error |-> "AttributeError"]
    ELSE [client |-> [c EXCEPT !.id_token = t + TokenLifeSecs * TicksPerSec],
          fetches |-> 1, raised |-> FALSE, error |-> "none"]

\* The result of update_dns_record: the client afterwards, whether an
\* exception left the method, the network calls in their order, the number of
\* token fetches, the bodies posted and the cached address that was compared.
Outcome(c, error, events, fetches, posted, compared) ==
    [ client |-> c, raised |-> error # "none", error |-> error, events |-> events,
      fetches |-> fetches, posted |-> posted, compared |-> compared ]

\* DynDnsClient._update_dns_record and the assignment that follows it, the
\* events of the call so far being events.
private_update_dns_record(c, t, ipv4, auth, post, events) ==
    LET a == authenticate(c, t, auth)
        evA == events \o <<"auth">> \o (IF a.fetches = 1 THEN <<"fetch">> ELSE <<>>)
        data == PostData(exploded(ipv4))
    IN IF a.raised
       THEN Outcome(a.client, a.error, evA, a.fetches, <<>>, c.current_ip)
       ELSE Outcome(CacheUpdate(a.client, ipv4, post = "ok"), "none",
                    Append(evA, "post"), a.fetches, <<data>>, c.current_ip)

\* DynDnsClient.update_dns_record(ipv4) at time t, the resolver finding dns,
\* a token fetch ending as auth and the POST as post.
update_dns_record(c, t, ipv4, dns, auth, post) ==
    LET expired == CacheExpired(c, t)
        found == query_dns(dns)
        c1 == IF expired /\ ~found.raised
              THEN [c EXCEPT !.current_ip = found.value,
                             !.last_dns_query_timestamp = t]
              ELSE c
        ev1 == IF expired THEN <<"lookup">> ELSE <<>>
    IN IF expired /\ found.raised
       THEN Outcome(c, found.error, ev1, 0, <<>>, NoIp)
       ELSE IF Unchanged(c1, ipv4)
       THEN Outcome(c1, "none", ev1, 0, <<>>, c1.current_ip)
       ELSE private_update_dns_record(c1, t, ipv4, auth, post, ev1)

----------------------------------------------------------------------------
\* State machine

NoPoll ==
    [ valid |-> FALSE, i |-> 0, t |-> 0, http |-> NoResponse, text |-> <<>>,
      ret |-> NoIp, raised |-> FALSE, requests |-> 0,
      pre |-> NewSource(0, 0, "strip", 0) ]

\* What a caller sees of a call; no response exists when no request was made.
Observe(i, t, http, text, res) ==
    [ valid |-> TRUE, i |-> i, t |-> t,
      http |-> IF res.requests = 0 THEN NoResponse ELSE http,
      text |-> IF res.requests = 0 THEN <<>> ELSE text,
      ret |-> res.ret, raised |-> res.raised, requests |-> res.requests,
      pre |-> sources[i] ]

\* No selection was made since the clock or a source last changed.
NoSel == [valid |-> FALSE, start |-> None, ret |-> None, raised |-> FALSE]

\* What a caller sees of a selection: the index the scan started at (None for
\* an empty list), the position returned, and whether TypeError was raised.
ObserveSel(api_index, r, sel) ==
    [ valid |-> TRUE,
      start |-> IF Len(sources) < 1 THEN None
                ELSE IF api_index = None THEN r ELSE api_index,
      ret |-> sel.ret, raised |-> sel.raised ]

\* The record of the composite calls: the index the first one started at, the
\* positions polled and the number of calls entered.  It is kept while the
\* calls follow one another, each polling with success, and while there are
\* fewer calls than sources.
NoRun == [active |-> FALSE, s |-> None, polled |-> <<>>, calls |-> 0]
NewRun == [active |-> TRUE, s |-> None, polled |-> <<>>, calls |-> 0]

\* MyPublicIP.get_my_public_ip was not left by the last step.
NoCall == [valid |-> FALSE, ret |-> NoIp, raised |-> FALSE]

\* MyPublicIP.get_my_public_ip was left by the last step: with the value ret,
\* or by an exception.
Left(ret, raised) ==
    [valid |-> TRUE, ret |-> IF raised THEN NoIp ELSE ret, raised |-> raised]

\* Where the loop of MyPublicIP.get_my_public_ip goes after the selection:
\* it returns None when there is no source, and the TypeError of the
\* selector leaves the method.
AfterSelect(ret, raised) ==
    IF raised \/ ret = None THEN "idle" ELSE "poll"

\* AfterPoll that returns whatever the first poll returned.
AfterPoll_ReturnsAnyway(ret, raised) == "idle"

\* Where the loop goes after the poll: it returns the IP on success, goes on
\* with the next selection on None, and an exception leaves the method.
AfterPoll(ret, raised) ==
    IF raised \/ ret # NoIp THEN "idle" ELSE "select"

\* The polls of one invocation of MyPublicIP.get_my_public_ip: the sources
\* polled (1-based) in their order, and the number of HTTP requests each of
\* the polls made.  It is kept in the specification that starts with NewInv.
NoInv == [active |-> FALSE, polled |-> <<>>, asked |-> <<>>]
NewInv == [active |-> TRUE, polled |-> <<>>, asked |-> <<>>]

\* The DynDnsClient of the specifications that call none.
NoClient == NewClient(0)

\* The values of interval_sec: the default, and one below the TTLs.
IntervalSecs == {30, 300}

\* The default of dns_record_ttl_sec.
DnsRecordTtlSec == 300

\* The outcomes of the requests of the driver's polls, and the body sent
\* with a 200.
DriverHttp == {200, 500, NoResponse}
DriverPayloads == { Quad(31, 16, 44, 203) }

\* PUBLIC_IP_SOURCES, constructed at time t: AWS, DynDNS and WtfIsMyIP.
\* ICanHazIP and My-IP.io, which are configured as AWS and WtfIsMyIP are,
\* are left out.
PUBLIC_IP_SOURCES(t) ==
    << NewSource(60, DefaultMaxInactiveSecs, "strip", t),
       NewSource(600, DefaultMaxInactiveSecs, "dyndns_re", t),
       NewSource(60, DefaultMaxInactiveSecs, "strip", t) >>

\* The truth value of success in "if success:": True, False or None.
Truthy(success) == success = "True"

\* The metric logged at the end of a cycle.
Metric(success) == IF Truthy(success) THEN "dyndns.success" ELSE "dyndns.error"

\* success after the call of update_dns_record, which returns None on every
\* path, or after the except clause.
SuccessOf(raised) == IF raised THEN "False" ELSE "None"

\* AfterBody without the except clause: an exception ends the loop.
AfterBody_Propagates(raised) == IF raised THEN "stopped" ELSE "report"

\* Where the driver goes after the body of the try statement: except
\* Exception catches what was raised, and the loop goes on to the metric.
AfterBody(raised) == "report"

\* The driver of the specifications that run none.
NoDriver ==
    [ pc |-> "off", cycles |-> 0, interval_sec |-> 0, public_ip |-> NoIp,
      success |-> "True", raised |-> FALSE, metric |-> "none" ]

\* No call of update_dns_record was made yet.
NoUpdate ==
    [ valid |-> FALSE, t |-> 0, ipv4 |-> NoIp, dns |-> "unasked", found |-> NoIp,
      auth |-> "unasked", post |-> "unsent", raised |-> FALSE,
      error |-> "none", events |-> <<>>,
      fetches |-> 0, posted |-> <<>>, compared |-> NoIp, pre |-> NoClient,
      result |-> "none",
      looked_before |-> None, looked_at |-> None,
      found_before |-> None, found_at |-> None,
      prev |-> [ipv4 |-> NoIp, result |-> "none", auth |-> "unasked"] ]

\* The event e is among the network calls of an outcome or observation.
Did(o, e) == \E k \in 1..Len(o.events) : o.events[k] = e

\* How a call ended, for the call that follows it.
ResultOf(res, post) ==
    IF res.raised THEN "raised"
    ELSE IF ~Did(res, "post") THEN "unchanged"
    ELSE IF post = "ok" THEN "updated"
    ELSE "failed"

\* What a caller and the collaborators see of a call of update_dns_record;
\* an answer, a fetch and a POST that were not asked for are not seen.
ObserveUpdate(t, ipv4, dns, auth, post, res) ==
    [ valid |-> TRUE, t |-> t, ipv4 |-> ipv4,
      dns |-> IF Did(res, "lookup") THEN dns.kind ELSE "unasked",
      found |-> IF Did(res, "lookup") THEN dns.ip ELSE NoIp,
      auth |-> IF Did(res, "fetch") THEN auth ELSE "unasked",
      post |-> IF Did(res, "post") THEN post ELSE "unsent",
      raised |-> res.raised, error |-> res.error, events |-> res.events,
      fetches |-> res.fetches,
      posted |-> res.posted, compared |-> res.compared, pre |-> client,
      result |-> ResultOf(res, post),
      looked_before |-> lastUpdate.looked_at,
      looked_at |-> IF Did(res, "lookup") THEN t ELSE lastUpdate.looked_at,
      found_before |-> lastUpdate.found_at,
      found_at |-> IF Did(res, "lookup") /\ dns.kind = "one"
                   THEN t ELSE lastUpdate.found_at,
      prev |-> IF lastUpdate.valid
               THEN [ipv4 |-> lastUpdate.ipv4,
                     result |-> lastUpdate.result,
                     auth |-> lastUpdate.auth]
               ELSE [ipv4 |-> NoIp, result |-> "none", auth |-> "unasked"] ]

\* Every configuration of a single source.
SourceConfigs(t) ==
    { NewSource(ttl, mi, rt, t) : ttl \in TtlSecs, mi \in MaxInactiveSecs, rt \in Routines }

\* The configurations of a source of a pool: a source without TTL that is
\* given up early, and a source with a TTL that is never given up.
PoolA(t) == NewSource(0, 1, "strip", t)
PoolB(t) == NewSource(1, DefaultMaxInactiveSecs, "strip", t)

\* The lists of sources MyPublicIP is constructed with.
SourceLists(t) ==
    { <<>>, <<PoolA(t)>>, <<PoolA(t), PoolB(t)>>, <<PoolB(t), PoolB(t)>> }

Init ==
    /\ now = StartSec * TicksPerSec
    /\ sources \in SourceLists(now)
    /\ next_api_index = None
    /\ pc = "idle"
    /\ cur = None
    /\ lastPoll = NoPoll
    /\ lastSel = NoSel
    /\ rr = NoRun
    /\ lastCall = NoCall
    /\ client = NoClient
    /\ lastUpdate = NoUpdate
    /\ inv = NoInv
    /\ driver = NoDriver

\* The clock advances by step seconds, up to the second limit.
Tick(step, limit) ==
    /\ now + step * TicksPerSec <= limit * TicksPerSec
    /\ now' = now + step * TicksPerSec
    /\ lastSel' = NoSel
    /\ lastCall' = NoCall
    /\ UNCHANGED <<sources, next_api_index, pc, cur, lastPoll, rr, clientVars,
                   inv, driver>>

\* The bodies among texts that the server may send with the status http.
Bodies(http, texts) == IF http = 200 THEN texts ELSE {<<>>}

\* One call of PublicIpSource.get_my_public_ip on source i (1-based), the HTTP
\* request ending in one of the outcomes https with one of the bodies texts;
\* failures are followed up to cap consecutive errors.
PollSource(i, https, texts, cap) ==
    \E http \in https : \E text \in Bodies(http, texts) :
        LET res == PublicIpSource_get_my_public_ip(sources[i], now, http, text) IN
        /\ res.src.consecutive_error_count <= cap
        /\ sources' = [sources EXCEPT ![i] = res.src]
        /\ lastPoll' = Observe(i, now, http, text, res)
        /\ lastSel' = IF res.src = sources[i] THEN lastSel ELSE NoSel
        /\ UNCHANGED <<clientVars, driver>>

\* A direct call of PublicIpSource.get_my_public_ip.
Poll ==
    /\ pc = "idle"
    /\ \E i \in 1..Len(sources) : PollSource(i, HttpOutcomes, PoolPayloads, PoolErrors)
    /\ rr' = NoRun
    /\ lastCall' = NoCall
    /\ UNCHANGED <<now, next_api_index, pc, cur, inv>>

\* A direct call of MyPublicIP._get_next_ip_source.
Select ==
    /\ pc = "idle"
    /\ \E r \in 0..(IF Len(sources) = 0 THEN 0 ELSE Len(sources) - 1) :
         LET sel == get_next_ip_source(sources, next_api_index, r, now) IN
         /\ next_api_index' = sel.index
         /\ lastSel' = ObserveSel(next_api_index, r, sel)
    /\ rr' = IF rr.active /\ rr.calls = 0 THEN rr ELSE NoRun
    /\ lastCall' = NoCall
    /\ UNCHANGED <<now, sources, pc, cur, lastPoll, clientVars, inv, driver>>

\* MyPublicIP.get_my_public_ip is entered.
CompositeCall ==
    /\ pc = "idle"
    /\ pc' = "select"
    /\ rr' = IF rr.active /\ rr.calls < Len(sources)
             THEN [rr EXCEPT !.calls = @ + 1]
             ELSE NoRun
    /\ lastCall' = NoCall
    /\ inv' = IF inv.active THEN NewInv ELSE inv
    /\ UNCHANGED <<now, sources, next_api_index, cur, lastPoll, lastSel, clientVars,
                   driver>>

\* The loop of MyPublicIP.get_my_public_ip asks for the next source; it returns
\* None when there is none, and the TypeError of the selector leaves the method.
CompositeSelect ==
    /\ pc = "select"
    /\ \E r \in 0..(IF Len(sources) = 0 THEN 0 ELSE Len(sources) - 1) :
         LET sel == get_next_ip_source(sources, next_api_index, r, now) IN
         /\ next_api_index' = sel.index
         /\ lastSel' = ObserveSel(next_api_index, r, sel)
         /\ rr' = IF rr.active /\ rr.s = None
                  THEN [rr EXCEPT !.s = lastSel'.start]
                  ELSE rr
         /\ pc' = AfterSelect(sel.ret, sel.raised)
         /\ cur' = IF pc' = "poll" THEN sel.ret ELSE None
         /\ lastCall' = IF pc' = "idle" THEN Left(NoIp, sel.raised) ELSE NoCall
    /\ UNCHANGED <<now, sources, lastPoll, clientVars, inv, driver>>

\* The loop polls the selected source, the request ending in one of https
\* with one of texts: it returns the IP on success, goes on with the next
\* selection on None, and an exception leaves the method.
CompositePollCap(https, texts, cap) ==
    /\ pc = "poll"
    /\ PollSource(cur + 1, https, texts, cap)
    /\ pc' = AfterPoll(lastPoll'.ret, lastPoll'.raised)
    /\ cur' = None
    /\ lastCall' = IF pc' = "idle" THEN Left(lastPoll'.ret, lastPoll'.raised) ELSE NoCall
    /\ rr' = IF ~rr.active THEN rr
             ELSE IF lastPoll'.ret # NoIp
             THEN [rr EXCEPT !.polled = Append(@, cur)]
             ELSE NoRun
    /\ inv' = IF inv.active
              THEN [inv EXCEPT !.polled = Append(@, cur + 1),
                               !.asked = Append(@, lastPoll'.requests)]
              ELSE inv
    /\ UNCHANGED <<now, next_api_index>>

CompositePollWith(https, texts) == CompositePollCap(https, texts, PoolErrors)

CompositePoll == CompositePollWith(HttpOutcomes, PoolPayloads)

Next ==
    \/ Tick(1, PoolHorizon)
    \/ Poll
    \/ Select
    \/ CompositeCall
    \/ CompositeSelect
    \/ CompositePoll

Spec == Init /\ [][Next]_vars

----------------------------------------------------------------------------
\* One source of any configuration, polled directly with every outcome.

InitSource ==
    /\ now = StartSec * TicksPerSec
    /\ sources \in { <<s>> : s \in SourceConfigs(now) }
    /\ next_api_index = None
    /\ pc = "idle"
    /\ cur = None
    /\ lastPoll = NoPoll
    /\ lastSel = NoSel
    /\ rr = NoRun
    /\ lastCall = NoCall
    /\ client = NoClient
    /\ lastUpdate = NoUpdate
    /\ inv = NoInv
    /\ driver = NoDriver

PollOne ==
    /\ pc = "idle"
    /\ PollSource(1, HttpOutcomes, Payloads, MaxErrors)
    /\ UNCHANGED <<now, next_api_index, pc, cur, rr, lastCall, inv>>

NextSource ==
    \/ Tick(1, MaxNow)
    \/ PollOne

SpecSource == InitSource /\ [][NextSource]_vars

----------------------------------------------------------------------------
\* One source with ttl_sec = 0 behind a server that answers 429 to every request,
\* the clock being read every ThrottleStep seconds.

InitThrottle ==
    /\ now = StartSec * TicksPerSec
    /\ sources \in { <<NewSource(0, mi, "strip", now)>> : mi \in MaxInactiveSecs }
    /\ next_api_index = None
    /\ pc = "idle"
    /\ cur = None
    /\ lastPoll = NoPoll
    /\ lastSel = NoSel
    /\ rr = NoRun
    /\ lastCall = NoCall
    /\ client = NoClient
    /\ lastUpdate = NoUpdate
    /\ inv = NoInv
    /\ driver = NoDriver

Throttled ==
    /\ pc = "idle"
    /\ PollSource(1, {429}, Payloads, MaxThrottle)
    /\ UNCHANGED <<now, next_api_index, pc, cur, rr, lastCall, inv>>

NextThrottle ==
    \/ Tick(ThrottleStep, ThrottleHorizon)
    \/ Throttled

SpecThrottle == InitThrottle /\ [][NextThrottle]_vars

----------------------------------------------------------------------------
\* Three sources served in turn: composite calls whose polls succeed, and
\* selections, from any index.

RoundRobinLists(t) ==
    { <<PoolB(t), PoolB(t), PoolB(t)>>,
      <<PoolA(t), PoolA(t), PoolA(t)>>,
      <<PoolA(t), PoolB(t), PoolA(t)>> }

InitRoundRobin ==
    /\ now = StartSec * TicksPerSec
    /\ sources \in RoundRobinLists(now)
    /\ next_api_index = None
    /\ pc = "idle"
    /\ cur = None
    /\ lastPoll = NoPoll
    /\ lastSel = NoSel
    /\ rr = NewRun
    /\ lastCall = NoCall
    /\ client = NoClient
    /\ lastUpdate = NoUpdate
    /\ inv = NoInv
    /\ driver = NoDriver

CompositePollOk == CompositePollWith({200}, {Quad(31, 16, 44, 203)})

NextRoundRobin ==
    \/ Tick(1, PoolHorizon)
    \/ Select
    \/ CompositeCall
    \/ CompositeSelect
    \/ CompositePollOk

SpecRoundRobin == InitRoundRobin /\ [][NextRoundRobin]_vars

----------------------------------------------------------------------------
\* Invocations of MyPublicIP.get_my_public_ip alone, the polls of each being
\* recorded, while the clock advances between any two steps.

InitLoop ==
    /\ now = StartSec * TicksPerSec
    /\ sources \in SourceLists(now)
    /\ next_api_index = None
    /\ pc = "idle"
    /\ cur = None
    /\ lastPoll = NoPoll
    /\ lastSel = NoSel
    /\ rr = NoRun
    /\ lastCall = NoCall
    /\ client = NoClient
    /\ lastUpdate = NoUpdate
    /\ inv = NewInv
    /\ driver = NoDriver

NextLoop ==
    \/ Tick(1, PoolHorizon)
    \/ CompositeCall
    \/ CompositeSelect
    \/ CompositePoll

SpecLoop == InitLoop /\ [][NextLoop]_vars

----------------------------------------------------------------------------
\* The loop of main.dyn_dns_client over the configured sources: a cycle
\* obtains the public IP, reconciles the DNS record, logs its metric and
\* sleeps for interval_sec.

InitDriver ==
    /\ now = DriverStartSec * TicksPerSec
    /\ sources = PUBLIC_IP_SOURCES(now)
    /\ next_api_index = None
    /\ pc = "idle"
    /\ cur = None
    /\ lastPoll = NoPoll
    /\ lastSel = NoSel
    /\ rr = NoRun
    /\ lastCall = NoCall
    /\ client = NewClient(DnsRecordTtlSec)
    /\ lastUpdate = NoUpdate
    /\ inv = NoInv
    /\ driver \in { [NoDriver EXCEPT !.pc = "top", !.interval_sec = i] :
                      i \in IntervalSecs }

\* The head of the loop: success = True, and get_my_public_ip is entered.
DriverCycle ==
    /\ driver.pc = "top"
    /\ driver.cycles < DriverCycles
    /\ pc = "idle"
    /\ pc' = "select"
    /\ lastCall' = NoCall
    /\ driver' = [driver EXCEPT !.pc = "ip", !.cycles = @ + 1,
                                !.success = "True", !.public_ip = NoIp,
                                !.raised = FALSE, !.metric = "none"]
    /\ UNCHANGED <<now, sources, next_api_index, cur, lastPoll, lastSel, rr,
                   clientVars, inv>>

\* The selections and the polls of get_my_public_ip inside the cycle.
DriverSelect == driver.pc = "ip" /\ CompositeSelect

DriverPoll == driver.pc = "ip" /\ CompositePollCap(DriverHttp, DriverPayloads, DriverCycles)

\* get_my_public_ip was left: with an IP, update_dns_record is called and
\* success is what it returns; without one, and after an exception of
\* either call, success is False.
DriverUpdate ==
    /\ driver.pc = "ip"
    /\ pc = "idle"
    /\ lastCall.valid
    /\ IF lastCall.raised \/ lastCall.ret = NoIp
       THEN /\ driver' = [driver EXCEPT !.pc = AfterBody(lastCall.raised),
                                        !.success = "False",
                                        !.raised = lastCall.raised]
            /\ UNCHANGED clientVars
       ELSE \E post \in PostOutcomes,
               dns \in (IF CacheExpired(client, now)
                        THEN DnsAnswers ELSE {[kind |-> "none", ip |-> NoIp]}),
               auth \in (IF TokenMissing(client, now)
                         THEN AuthOutcomes ELSE {"token"}) :
              LET res == update_dns_record(client, now, lastCall.ret, dns, auth, post) IN
              /\ client' = res.client
              /\ lastUpdate' = ObserveUpdate(now, lastCall.ret, dns, auth, post, res)
              /\ driver' = [driver EXCEPT !.pc = AfterBody(res.raised),
                                          !.success = SuccessOf(res.raised),
                                          !.public_ip = lastCall.ret,
                                          !.raised = res.raised]
    /\ lastCall' = NoCall
    /\ UNCHANGED <<now, sources, next_api_index, pc, cur, lastPoll, lastSel, rr, inv>>

\* The metric of the cycle is logged.
DriverReport ==
    /\ driver.pc = "report"
    /\ driver' = [driver EXCEPT !.pc = "sleep", !.metric = Metric(driver.success)]
    /\ UNCHANGED <<now, sources, next_api_index, pc, cur, lastPoll, lastSel, rr,
                   lastCall, clientVars, inv>>

\* time.sleep(interval_sec), and back to the head of the loop.
DriverSleep ==
    /\ driver.pc = "sleep"
    /\ now' = now + driver.interval_sec * TicksPerSec
    /\ driver' = [driver EXCEPT !.pc = "top"]
    /\ lastSel' = NoSel
    /\ lastCall' = NoCall
    /\ UNCHANGED <<sources, next_api_index, pc, cur, lastPoll, rr, clientVars, inv>>

NextDriver ==
    \/ DriverCycle
    \/ DriverSelect
    \/ DriverPoll
    \/ DriverUpdate
    \/ DriverReport
    \/ DriverSleep

\* The driver is one thread that executes its next statement: a request
\* ends by its timeout at the latest, and a sleep ends.
SpecDriver == InitDriver /\ [][NextDriver]_vars /\ WF_vars(NextDriver)

----------------------------------------------------------------------------
\* The DynDnsClient, called with any address while the resolver, the token
\* service and the update API answer in every way.

InitClient ==
    /\ now = ClientStartSec * TicksPerSec
    /\ sources = <<>>
    /\ next_api_index = None
    /\ pc = "idle"
    /\ cur = None
    /\ lastPoll = NoPoll
    /\ lastSel = NoSel
    /\ rr = NoRun
    /\ lastCall = NoCall
    /\ client \in { NewClient(ttl) : ttl \in CacheTtlSecs }
    /\ lastUpdate = NoUpdate
    /\ inv = NoInv
    /\ driver = NoDriver

\* One call of DynDnsClient.update_dns_record.
Reconcile ==
    /\ pc = "idle"
    /\ \E ipv4 \in ClientIps, post \in PostOutcomes,
          dns \in (IF CacheExpired(client, now)
                   THEN DnsAnswers ELSE {[kind |-> "none", ip |-> NoIp]}),
          auth \in (IF TokenMissing(client, now)
                    THEN AuthOutcomes ELSE {"token"}) :
         LET res == update_dns_record(client, now, ipv4, dns, auth, post) IN
         /\ client' = res.client
         /\ lastUpdate' = ObserveUpdate(now, ipv4, dns, auth, post, res)
    /\ UNCHANGED <<now, sources, next_api_index, pc, cur, lastPoll, lastSel, rr,
                   lastCall, inv, driver>>

NextClient ==
    \/ Tick(1, ClientHorizon)
    \/ Reconcile

SpecClient == InitClient /\ [][NextClient]_vars

----------------------------------------------------------------------------
\* Properties of PublicIpSource.get_my_public_ip.  lastPoll holds the inputs
\* and the result of the most recent call and the source before it; the
\* source after it is sources[lastPoll.i], which no other step changes.

Pre == lastPoll.pre
Post == sources[lastPoll.i]

\* The most recent call made its HTTP request.
Attempted == lastPoll.valid /\ lastPoll.requests = 1

\* The bodies that hold a globally routable IPv4 address, and the others.
PublicBodies == { Quad(31, 16, 44, 203), Quad(31, 16, 44, 203) \o <<Tok.nl>> }
NonPublicBodies == Payloads \ PublicBodies

\* Seconds of inactivity at the call exceed max_inactive_secs.
InactiveTooLong ==
    LongerThan(lastPoll.t - (IF Pre.last_successful_poll = None
                             THEN Pre.epoch_timestamp
                             ELSE Pre.last_successful_poll),
               Pre.max_inactive_secs)

\* C1: a poll of a disabled source, or at a time before next_poll_timestamp,
\* returns no IP, makes no HTTP request and leaves enabled, the three
\* timestamps and the three counters as they were.
C1_RejectedPollChangesNothing ==
    (lastPoll.valid /\ (~Pre.enabled \/ lastPoll.t < Pre.next_poll_timestamp))
        => /\ lastPoll.ret = NoIp
           /\ ~lastPoll.raised
           /\ lastPoll.requests = 0
           /\ Post.enabled = Pre.enabled
           /\ Post.last_poll_timestamp = Pre.last_poll_timestamp
           /\ Post.next_poll_timestamp = Pre.next_poll_timestamp
           /\ Post.last_successful_poll = Pre.last_successful_poll
           /\ Post.consecutive_http_error_count = Pre.consecutive_http_error_count
           /\ Post.consecutive_http_429_count = Pre.consecutive_http_429_count
           /\ Post.consecutive_error_count = Pre.consecutive_error_count

\* A throttled source was polled before the end of its back-off.
C1_Witness ==
    /\ lastPoll.valid
    /\ Pre.enabled
    /\ lastPoll.t < Pre.next_poll_timestamp
    /\ Pre.consecutive_http_429_count > 0

\* C2: a fully successful poll at time t returns the address and leaves the
\* three counters 0, last_successful_poll = last_poll_timestamp = t and
\* next_poll_timestamp = t + ttl_sec, whatever the counters were.
C2_SuccessResets ==
    (Attempted /\ lastPoll.http = 200 /\ Pre.get_ip_routine = "strip"
               /\ lastPoll.text \in PublicBodies)
        => /\ lastPoll.ret = <<31, 16, 44, 203>>
           /\ Post.consecutive_http_error_count = 0
           /\ Post.consecutive_http_429_count = 0
           /\ Post.consecutive_error_count = 0
           /\ Post.last_successful_poll = lastPoll.t
           /\ Post.last_poll_timestamp = lastPoll.t
           /\ Post.next_poll_timestamp = lastPoll.t + Post.ttl_sec * TicksPerSec

\* A poll succeeded right after a 429.
C2_Witness ==
    /\ Attempted
    /\ lastPoll.ret # NoIp
    /\ Pre.consecutive_http_429_count > 0
    /\ Pre.consecutive_error_count > 0

\* C3: a poll returns an address only for a body that holds a globally
\* routable IPv4 address; for a private, loopback, reserved, IPv6 or
\* malformed value it returns none and adds one to consecutive_error_count.
C3_OnlyGlobalIPv4 ==
    /\ (Attempted /\ lastPoll.http = 200 /\ lastPoll.text \in NonPublicBodies)
          => /\ lastPoll.ret = NoIp
             /\ Post.consecutive_error_count = Pre.consecutive_error_count + 1
    /\ (lastPoll.valid /\ lastPoll.ret # NoIp)
          => /\ lastPoll.text \in PublicBodies
             /\ lastPoll.ret = <<31, 16, 44, 203>>

\* The body was the documentation address 203.0.113.5, and was refused.
C3_Witness ==
    /\ Attempted
    /\ lastPoll.http = 200
    /\ Pre.get_ip_routine = "strip"
    /\ lastPoll.text = Quad(203, 0, 113, 5)
    /\ lastPoll.ret = NoIp

\* C4: an enabled source is disabled by a poll attempt exactly when the
\* attempt fails and the time since the last success (or the creation)
\* exceeds max_inactive_secs.
C4_DisabledIffFailedAndInactive ==
    (Attempted /\ Pre.enabled)
        => (~Post.enabled <=> (lastPoll.ret = NoIp /\ InactiveTooLong))

\* C5: a source that is disabled is disabled in every later state.
C5_DisabledForGood ==
    [][\A i \in 1..Len(sources) : ~sources[i].enabled => ~sources'[i].enabled]_vars

\* A disabled source of a pool of two was polled again, after a selection.
C5_Witness ==
    /\ Len(sources) = 2
    /\ next_api_index # None
    /\ lastPoll.valid
    /\ ~Pre.enabled
    /\ ~Post.enabled

\* next_poll_timestamp = t + ttl_sec + 1.5^k seconds for the k of the source
\* after the call, both sides multiplied by 2^k.
BackedOff ==
    (Post.next_poll_timestamp - lastPoll.t - Post.ttl_sec * TicksPerSec)
            * (2 ^ Post.consecutive_http_429_count)
        = (3 ^ Post.consecutive_http_429_count) * TicksPerSec

\* C6 as claimed: after every poll attempt that ends with status 429,
\* next_poll_timestamp = t + ttl_sec + 1.5^k, k the count after the attempt.
C6_BackoffAlways ==
    (Attempted /\ lastPoll.http = 429) => BackedOff

\* C6: after a poll attempt that ends with status 429 and does not disable
\* the source, next_poll_timestamp = t + ttl_sec + 1.5^k, k the count after
\* the attempt.
C6_BackoffUnlessDisabled ==
    (Attempted /\ lastPoll.http = 429 /\ Post.enabled) => BackedOff

\* The tenth consecutive 429 of a source with ttl_sec = 0.
C6_Witness ==
    /\ Attempted
    /\ lastPoll.http = 429
    /\ Post.ttl_sec = 0
    /\ Post.consecutive_http_429_count = 10
    /\ Post.next_poll_timestamp
          = Post.last_poll_timestamp + 59049 * (TicksPerSec \div 1024)

\* C7: a poll attempt that ends with status 429 adds one to
\* consecutive_http_429_count and sets consecutive_http_error_count to 0.
C7_ThrottleCounts ==
    (Attempted /\ lastPoll.http = 429)
        => /\ Post.consecutive_http_429_count = Pre.consecutive_http_429_count + 1
           /\ Post.consecutive_http_error_count = 0

\* A 429 followed two HTTP errors.
C7_Witness ==
    /\ Attempted
    /\ lastPoll.http = 429
    /\ Pre.consecutive_http_error_count = 2

C9_HttpErrorCounts ==
    (Attempted /\ lastPoll.http >= 400 /\ lastPoll.http # 429)
        => /\ lastPoll.ret = NoIp
           /\ ~lastPoll.raised
           /\ Post.consecutive_http_error_count = Pre.consecutive_http_error_count + 1
           /\ Post.consecutive_http_429_count = 0
           /\ Post.enabled
                => Post.next_poll_timestamp = lastPoll.t + Post.ttl_sec * TicksPerSec

\* A status 500 followed a 429 and left the source enabled.
C9_Witness ==
    /\ Attempted
    /\ lastPoll.http = 500
    /\ Pre.consecutive_http_429_count > 0
    /\ Post.enabled

\* C10: a request that fails without a response is handled as a transport
\* failure: the poll returns none without raising, adds one to
\* consecutive_http_error_count, sets consecutive_http_429_count to 0 and
\* runs the inactivity check.
C10_NetworkFailureHandled ==
    (Attempted /\ lastPoll.http = NoResponse)
        => /\ ~lastPoll.raised
           /\ lastPoll.ret = NoIp
           /\ Post.consecutive_http_error_count = Pre.consecutive_http_error_count + 1
           /\ Post.consecutive_http_429_count = 0
           /\ InactiveTooLong => ~Post.enabled

\* The most recent call got its response and the extraction strategy raised.
ExtractionFailed ==
    Attempted /\ lastPoll.http = 200 /\ Pre.get_ip_routine = "dyndns_re"

\* C11 as claimed: when the request succeeds and the extraction strategy
\* raises, the poll returns none, adds one to consecutive_error_count and
\* leaves consecutive_http_error_count and consecutive_http_429_count at
\* their values before the attempt.
C11_HttpCountersKept ==
    ExtractionFailed
        => /\ lastPoll.ret = NoIp
           /\ Post.consecutive_error_count = Pre.consecutive_error_count + 1
           /\ Post.consecutive_http_error_count = Pre.consecutive_http_error_count
           /\ Post.consecutive_http_429_count = Pre.consecutive_http_429_count

\* C11: when the request succeeds and the extraction strategy raises, the
\* poll returns none without raising, adds one to consecutive_error_count
\* and sets consecutive_http_error_count and consecutive_http_429_count to 0,
\* which is their value before the attempt only when that was 0.
C11_HttpCountersReset ==
    ExtractionFailed
        => /\ lastPoll.ret = NoIp
           /\ ~lastPoll.raised
           /\ Post.consecutive_error_count = Pre.consecutive_error_count + 1
           /\ Post.consecutive_http_error_count = 0
           /\ Post.consecutive_http_429_count = 0

\* The extraction failed right after a 429.
C11_Witness ==
    /\ ExtractionFailed
    /\ Pre.consecutive_http_429_count > 0
    /\ Post.consecutive_http_429_count = 0
    /\ Post.consecutive_error_count = 2

\* C12: after a poll attempt whose request succeeded, whatever became of the
\* body, consecutive_http_error_count = 0, consecutive_http_429_count = 0
\* and next_poll_timestamp = last_poll_timestamp + ttl_sec.
C12_AfterHttpSuccess ==
    (Attempted /\ lastPoll.http = 200)
        => /\ Post.consecutive_http_error_count = 0
           /\ Post.consecutive_http_429_count = 0
           /\ Post.next_poll_timestamp
                 = Post.last_poll_timestamp + Post.ttl_sec * TicksPerSec

\* The most recent call made its request and the request, the extraction or
\* the validation of the address failed.
AttemptFailed ==
    /\ Attempted
    /\ \/ lastPoll.http # 200
       \/ Pre.get_ip_routine = "dyndns_re"
       \/ lastPoll.text \in NonPublicBodies

\* C13: a poll attempt that makes its request and does not fully succeed
\* adds exactly one to consecutive_error_count and leaves
\* last_successful_poll as it was.
C13_FailureCountsOnce ==
    AttemptFailed
        => /\ lastPoll.ret = NoIp
           /\ Post.consecutive_error_count = Pre.consecutive_error_count + 1
           /\ Post.last_successful_poll = Pre.last_successful_poll

\* A private address was refused by a source that had succeeded before.
C13_Witness ==
    /\ AttemptFailed
    /\ lastPoll.http = 200
    /\ lastPoll.text = Quad(10, 0, 0, 5)
    /\ Pre.last_successful_poll # None
    /\ Pre.consecutive_error_count = 1
    /\ Post.consecutive_error_count = 2

\* C14: a source that has been polled has a next_poll_timestamp that is a
\* timestamp not before last_poll_timestamp, also once it is disabled.
C14_NextPollNotBeforeLastPoll ==
    \A i \in 1..Len(sources) :
        sources[i].last_poll_timestamp # None
            => /\ sources[i].next_poll_timestamp # None
               /\ sources[i].next_poll_timestamp >= sources[i].last_poll_timestamp

\* C15: a poll attempt that ends with 429 right after one that ended with
\* 429 leaves a larger next_poll_timestamp and adds one to
\* consecutive_http_429_count; the first attempt that ends otherwise sets
\* consecutive_http_429_count to 0.
C15_ThrottleRun ==
    /\ (Attempted /\ lastPoll.http = 429 /\ Pre.consecutive_http_429_count > 0)
          => /\ Post.next_poll_timestamp # None
             /\ Post.next_poll_timestamp > Pre.next_poll_timestamp
             /\ Post.consecutive_http_429_count = Pre.consecutive_http_429_count + 1
    /\ (Attempted /\ lastPoll.http # 429 /\ Pre.consecutive_http_429_count > 0)
          => Post.consecutive_http_429_count = 0

----------------------------------------------------------------------------
\* Properties of MyPublicIP.  lastSel holds the most recent selection while
\* the clock and the sources are as the selection found them.

\* The positions (0-based) of the sources that are enabled and due at time t.
Eligible(srcs, t) ==
    { i \in 0..(Len(srcs) - 1) :
        /\ srcs[i + 1].enabled
        /\ srcs[i + 1].next_poll_timestamp # None
        /\ srcs[i + 1].next_poll_timestamp <= t }

\* The first eligible position in the order start, start + 1, ... (mod N),
\* None when there is none.
FirstEligible(srcs, start, t) ==
    LET N == Len(srcs)
        offsets == { c \in 0..(N - 1) : ((start + c) % N) \in Eligible(srcs, t) }
    IN IF N = 0 \/ offsets = {}
       THEN None
       ELSE (start + (CHOOSE c \in offsets : \A d \in offsets : c <= d)) % N

\* C16: the selector returns the first source, in the order of the scan from
\* the current index, that is enabled and has next_poll_timestamp <= now,
\* and None when there is none or the list is empty.
C16_ReturnsFirstEligible ==
    lastSel.valid
        => /\ ~lastSel.raised
           /\ lastSel.ret = FirstEligible(sources, lastSel.start, now)
           /\ lastSel.ret # None => lastSel.ret \in Eligible(sources, now)

\* C17: when the selector returns the source at position i, its index
\* afterwards is (i + 1) mod N.
C17_IndexPastReturned ==
    (lastSel.valid /\ lastSel.ret # None)
        => next_api_index = (lastSel.ret + 1) % Len(sources)

\* All sources have the same ttl_sec.
EqualTtl ==
    \A i, j \in 1..Len(sources) : sources[i].ttl_sec = sources[j].ttl_sec

\* C18: with equal ttl_sec, a selection that follows another one does not
\* return the same source again while another enabled, eligible source waits.
C18_NoRepeatBeforeOthers ==
    [][ ( /\ EqualTtl
          /\ lastSel.valid /\ lastSel'.valid /\ lastSel' # lastSel
          /\ lastSel.ret # None
          /\ lastSel'.ret = lastSel.ret )
        => Cardinality(Eligible(sources, now)) <= 1 ]_vars

\* C19: the composite calls made one after the other on N enabled, eligible
\* sources, each polling with success, poll one source per call, at the
\* positions s, s + 1, ... (mod N) from the index s of the first selection.
C19_RoundRobinOrder ==
    rr.active
        => /\ Len(rr.polled) <= rr.calls
           /\ rr.calls <= Len(rr.polled) + 1
           /\ pc = "idle" => Len(rr.polled) = rr.calls
           /\ \A k \in 1..Len(rr.polled) :
                 /\ rr.s # None
                 /\ rr.polled[k] = (rr.s + k - 1) % Len(sources)

\* Three calls from index 2 polled the positions 2, 0, 1.
C19_Witness ==
    /\ rr.active
    /\ pc = "idle"
    /\ rr.calls = 3
    /\ rr.s = 2
    /\ rr.polled = <<2, 0, 1>>

\* C20: once a source is disabled, a selection still ends without raising,
\* with an enabled and eligible source when there is one and None otherwise.
C20_SelectionSurvivesDisabled ==
    (lastSel.valid /\ \E i \in 1..Len(sources) : ~sources[i].enabled)
        => /\ ~lastSel.raised
           /\ lastSel.ret = None <=> Eligible(sources, now) = {}
           /\ lastSel.ret # None => lastSel.ret \in Eligible(sources, now)

\* C21: MyPublicIP.get_my_public_ip returns the address of a poll only when
\* that poll, the last of the call, succeeded, and returns None only after
\* the selector returned None, no source being enabled and eligible.
C21_ReturnsFirstSuccessOrNone ==
    (lastCall.valid /\ ~lastCall.raised)
        => /\ lastCall.ret # NoIp
                => /\ lastPoll.valid
                   /\ lastPoll.t = now
                   /\ lastPoll.ret = lastCall.ret
           /\ lastCall.ret = NoIp
                => /\ lastSel.valid
                   /\ ~lastSel.raised
                   /\ lastSel.ret = None
                   /\ Eligible(sources, now) = {}

\* Both sources of a pool just failed with status 500 and the call returned
\* None.
C21_Witness ==
    /\ lastCall.valid
    /\ ~lastCall.raised
    /\ lastCall.ret = NoIp
    /\ Len(sources) = 2
    /\ lastPoll.valid /\ lastPoll.http = 500 /\ lastPoll.t = now
    /\ \A i \in 1..2 : /\ sources[i].last_poll_timestamp = now
                       /\ sources[i].consecutive_http_error_count > 0

----------------------------------------------------------------------------
\* Properties of DynDnsClient.update_dns_record.  lastUpdate holds the
\* inputs and the result of the most recent call and the client before it;
\* the client after it is client, which no other step changes.

\* The cache was stale at the most recent call: now - cache_timestamp >=
\* cache_ttl_sec.
Stale ==
    lastUpdate.t - lastUpdate.pre.last_dns_query_timestamp
        >= lastUpdate.pre.dns_cache_ttl_sec * TicksPerSec

\* The number of events e among the network calls of the most recent call.
Count(e) ==
    Cardinality({ k \in 1..Len(lastUpdate.events) : lastUpdate.events[k] = e })

\* The most recent call got as far as comparing the address with the cache.
ReachedComparison ==
    lastUpdate.valid /\ (Stale => lastUpdate.dns = "one")

\* The body of the update call for the address of the most recent call.
ExpectedBody ==
    [ zone_name |-> "zone_name", zone_dns_name |-> "zone_dns_name",
      hostname |-> "hostname",
      ip_address |-> Quad(lastUpdate.ipv4[1], lastUpdate.ipv4[2],
                          lastUpdate.ipv4[3], lastUpdate.ipv4[4]) ]

\* C22: a call with a stale cache makes exactly one DNS lookup, before
\* every other network call, and when the lookup yields an address or no
\* record it sets cached_ip to that result and cache_timestamp to now; a
\* call with a fresh cache makes no DNS lookup.
C22_LookupWhenStale ==
    lastUpdate.valid
        => /\ Stale
                => /\ Count("lookup") = 1
                   /\ lastUpdate.events[1] = "lookup"
                   /\ lastUpdate.dns \in {"one", "none"}
                        => /\ lastUpdate.compared = lastUpdate.found
                           /\ client.last_dns_query_timestamp = lastUpdate.t
           /\ ~Stale => Count("lookup") = 0

\* C23: when the lookup of a stale cache finds no record, the call ends
\* without an error, records cached_ip = None and cache_timestamp = now and
\* goes on to the update call.
C23_NoRecordIsLegitimate ==
    (lastUpdate.valid /\ lastUpdate.dns = "none")
        => /\ ~lastUpdate.raised
           /\ lastUpdate.compared = NoIp
           /\ client.last_dns_query_timestamp = lastUpdate.t
           /\ Count("auth") = 1

\* C24: when the address equals cached_ip, after the refresh the call may
\* have made, the call posts nothing, does not call the identity provider
\* and leaves cached_ip as it is.
C24_UnchangedMakesNoCall ==
    (ReachedComparison /\ lastUpdate.compared = lastUpdate.ipv4)
        => /\ ~lastUpdate.raised
           /\ lastUpdate.posted = <<>>
           /\ Count("auth") = 0
           /\ Count("fetch") = 0
           /\ Count("post") = 0
           /\ client.current_ip = lastUpdate.compared

\* The lookup of a stale cache found the address the call was made with,
\* which the cache did not hold before.
C24_Witness ==
    /\ lastUpdate.valid
    /\ lastUpdate.events = <<"lookup">>
    /\ lastUpdate.found = lastUpdate.ipv4
    /\ lastUpdate.pre.current_ip # lastUpdate.ipv4
    /\ lastUpdate.pre.current_ip # NoIp
    /\ client.current_ip = lastUpdate.ipv4

\* One update call was posted by the most recent call, with the body of the
\* claim and an unexpired token, and no DNS lookup was made.
OneUpdateCall ==
    /\ Count("lookup") = 0
    /\ Count("post") = 1
    /\ lastUpdate.posted = <<ExpectedBody>>
    /\ client.id_token # None
    /\ client.id_token > lastUpdate.t
    /\ lastUpdate.post = "ok" => client.current_ip = lastUpdate.ipv4

\* C25 as claimed: when the address differs from cached_ip and the cache is
\* fresh, the call posts exactly one authenticated update with zone name,
\* zone DNS name, hostname and the address, and makes no DNS lookup; when
\* the POST succeeds cached_ip becomes the address.
C25_OneUpdateWhenChanged ==
    (lastUpdate.valid /\ ~Stale /\ lastUpdate.pre.current_ip # lastUpdate.ipv4)
        => OneUpdateCall

\* C25: as claimed, whenever the identity provider holds or obtains a valid
\* token; when it does not, the call is left by the exception and posts
\* nothing.
C25_OneUpdateWhenChangedAndAuthenticated ==
    (lastUpdate.valid /\ ~Stale /\ lastUpdate.pre.current_ip # lastUpdate.ipv4)
        => IF lastUpdate.auth \in {"unasked", "token"}
           THEN OneUpdateCall /\ ~lastUpdate.raised
           ELSE lastUpdate.raised /\ Count("post") = 0 /\ Count("lookup") = 0

\* A changed address was posted with a freshly fetched token while the
\* cache was fresh, and the POST succeeded.
C25_Witness ==
    /\ lastUpdate.valid
    /\ ~Stale
    /\ lastUpdate.pre.current_ip = <<31, 16, 44, 203>>
    /\ lastUpdate.ipv4 = <<31, 16, 44, 204>>
    /\ lastUpdate.events = <<"auth", "fetch", "post">>
    /\ lastUpdate.post = "ok"
    /\ client.current_ip = <<31, 16, 44, 204>>

\* C26: after a call that ended with a successful update to an address, the
\* next call with the same address and a cache that is still fresh makes no
\* DNS lookup, no token request and no update call.
C26_RoundTrip ==
    (lastUpdate.valid /\ lastUpdate.prev.result = "updated"
                      /\ lastUpdate.prev.ipv4 = lastUpdate.ipv4 /\ ~Stale)
        => /\ lastUpdate.events = <<>>
           /\ lastUpdate.posted = <<>>
           /\ lastUpdate.fetches = 0
           /\ ~lastUpdate.raised

\* The same address came again a second after its successful update, the
\* cache of two seconds still fresh.
C26_Witness ==
    /\ lastUpdate.valid
    /\ lastUpdate.prev.result = "updated"
    /\ lastUpdate.prev.ipv4 = lastUpdate.ipv4
    /\ ~Stale
    /\ lastUpdate.pre.dns_cache_ttl_sec = 2
    /\ lastUpdate.t = lastUpdate.pre.last_dns_query_timestamp + TicksPerSec
    /\ lastUpdate.events = <<>>

\* The most recent call posted the update and the POST failed: the call
\* returned and cached_ip is what it was compared with.
FailedPostKeepsCache ==
    (lastUpdate.valid /\ lastUpdate.post \in {"status", "transport"})
        => /\ ~lastUpdate.raised
           /\ client.current_ip = lastUpdate.compared
           /\ client.current_ip # lastUpdate.ipv4

\* C27 as claimed: a failed POST returns without raising and leaves
\* cached_ip as it was before the update attempt, and the next call with
\* the same address posts the update again.
C27_FailedUpdateIsRetried ==
    /\ FailedPostKeepsCache
    /\ (lastUpdate.valid /\ lastUpdate.prev.result = "failed"
                         /\ lastUpdate.prev.ipv4 = lastUpdate.ipv4)
          => Count("post") = 1

\* C27: a failed POST returns without raising and leaves cached_ip as it
\* was before the update attempt, and the next call with the same address
\* posts the update again unless its DNS lookup fails or finds that address,
\* or no valid token is obtained.
C27_FailedUpdateIsRetriedIfReached ==
    /\ FailedPostKeepsCache
    /\ (lastUpdate.valid /\ lastUpdate.prev.result = "failed"
                         /\ lastUpdate.prev.ipv4 = lastUpdate.ipv4)
          => \/ Count("post") = 1
             \/ lastUpdate.dns \in {"none", "many", "fail"}
             \/ lastUpdate.dns = "one" /\ lastUpdate.found = lastUpdate.ipv4
             \/ lastUpdate.auth \in {"invalid", "error"}

\* The update was posted again, the cache still fresh, after the POST of the
\* same address had failed.
C27_Witness ==
    /\ lastUpdate.valid
    /\ lastUpdate.prev.result = "failed"
    /\ lastUpdate.prev.ipv4 = lastUpdate.ipv4
    /\ ~Stale
    /\ Count("post") = 1
    /\ lastUpdate.post = "transport"
    /\ client.current_ip = lastUpdate.pre.current_ip

\* C28: when the resolver finds more than one A record, the call fails with
\* the error of the ambiguous record, posts no update and leaves cached_ip
\* and cache_timestamp as they were before the call.
C28_AmbiguousRecordFails ==
    (lastUpdate.valid /\ lastUpdate.dns = "many")
        => /\ lastUpdate.raised
           /\ lastUpdate.error = "ValueError"
           /\ Count("post") = 0
           /\ Count("auth") = 0
           /\ client.current_ip = lastUpdate.pre.current_ip
           /\ client.last_dns_query_timestamp
                 = lastUpdate.pre.last_dns_query_timestamp

\* Two A records were found when the cache, which held an address, expired.
C28_Witness ==
    /\ lastUpdate.valid
    /\ lastUpdate.dns = "many"
    /\ lastUpdate.pre.current_ip # NoIp
    /\ lastUpdate.pre.dns_cache_ttl_sec = 2
    /\ client = lastUpdate.pre

\* C29 as claimed: any two DNS lookups are at least cache_ttl_sec apart.
C29_LookupsApart ==
    (lastUpdate.valid /\ Count("lookup") > 0 /\ lastUpdate.looked_before # None)
        => lastUpdate.t - lastUpdate.looked_before
              >= client.dns_cache_ttl_sec * TicksPerSec

\* C29: a DNS lookup is at least cache_ttl_sec after the most recent lookup
\* that yielded an address, and a call makes at most one lookup; a lookup
\* that fails is made again by the next call.
C29_LookupsApartAfterAnswer ==
    /\ (lastUpdate.valid /\ Count("lookup") > 0 /\ lastUpdate.found_before # None)
          => lastUpdate.t - lastUpdate.found_before
                >= client.dns_cache_ttl_sec * TicksPerSec
    /\ lastUpdate.valid => Count("lookup") <= 1
    /\ (lastUpdate.valid /\ lastUpdate.looked_before # None
                         /\ lastUpdate.looked_before # lastUpdate.found_before)
          => Count("lookup") = 1

\* A lookup was made exactly cache_ttl_sec = 2 seconds after the one before,
\* which had yielded an address.
C29_Witness ==
    /\ lastUpdate.valid
    /\ Count("lookup") = 1
    /\ client.dns_cache_ttl_sec = 2
    /\ lastUpdate.found_before # None
    /\ lastUpdate.looked_before = lastUpdate.found_before
    /\ lastUpdate.t = lastUpdate.found_before + 2 * TicksPerSec

\* C30 as claimed: right after a successful update cached_ip is the address
\* and cache_timestamp is the time of the call.
C30_UpdateRefreshesCache ==
    (lastUpdate.valid /\ lastUpdate.post = "ok")
        => /\ client.current_ip = lastUpdate.ipv4
           /\ client.last_dns_query_timestamp = lastUpdate.t

\* C30: right after a successful update cached_ip is the address, and
\* cache_timestamp is the time of the last DNS lookup that yielded an
\* address: the time of the call when the call made the lookup, and the
\* value it had before the call otherwise.
C30_UpdateRefreshesAddressOnly ==
    (lastUpdate.valid /\ lastUpdate.post = "ok")
        => /\ client.current_ip = lastUpdate.ipv4
           /\ client.last_dns_query_timestamp
                 = IF Count("lookup") = 1
                   THEN lastUpdate.t
                   ELSE lastUpdate.pre.last_dns_query_timestamp

\* An update succeeded a second after the last DNS lookup, and
\* cache_timestamp remained the time of the lookup.
C30_Witness ==
    /\ lastUpdate.valid
    /\ lastUpdate.post = "ok"
    /\ Count("lookup") = 0
    /\ client.current_ip = lastUpdate.ipv4
    /\ client.last_dns_query_timestamp = lastUpdate.t - TicksPerSec

\* C31: the identity provider attaches no absent and no expired token to the
\* headers of a request: a call that authenticates fetches a token first,
\* once, exactly when the token held is absent or expired, a request is
\* posted only with a token that is held and not expired, and a held token
\* that is not expired is used again without a fetch.
C31_NoAbsentOrExpiredToken ==
    (lastUpdate.valid /\ Count("auth") = 1)
        => /\ Count("fetch") = (IF TokenMissing(lastUpdate.pre, lastUpdate.t)
                                THEN 1 ELSE 0)
           /\ Count("fetch") = 1 => lastUpdate.events[Len(lastUpdate.events)
                   - (IF Count("post") = 1 THEN 1 ELSE 0)] = "fetch"
           /\ Count("post") = 1
                 => /\ client.id_token # None
                    /\ client.id_token > lastUpdate.t
                    /\ lastUpdate.auth \in {"unasked", "token"}
           /\ ~TokenMissing(lastUpdate.pre, lastUpdate.t)
                 => /\ client.id_token = lastUpdate.pre.id_token
                    /\ Count("post") = 1

\* A request was posted with the token fetched by an earlier call and not
\* yet expired.
C31_Witness ==
    /\ lastUpdate.valid
    /\ lastUpdate.pre.id_token # None
    /\ lastUpdate.pre.id_token > lastUpdate.t
    /\ lastUpdate.events = <<"auth", "post">>
    /\ client.id_token = lastUpdate.pre.id_token

\* The most recent call could not obtain a valid token: it posted nothing
\* and cached_ip is what it was compared with.
AuthFailureAborts ==
    (lastUpdate.valid /\ lastUpdate.auth \in {"invalid", "error"})
        => /\ Count("post") = 0
           /\ lastUpdate.posted = <<>>
           /\ client.current_ip = lastUpdate.compared
           /\ client.current_ip # lastUpdate.ipv4

\* C32 as claimed: when no valid token can be obtained the call posts no
\* update and leaves cached_ip unchanged, and the next call with the same
\* address attempts the update again.
C32_AuthFailureIsRetried ==
    /\ AuthFailureAborts
    /\ (lastUpdate.valid /\ lastUpdate.prev.auth \in {"invalid", "error"}
                         /\ lastUpdate.prev.ipv4 = lastUpdate.ipv4)
          => Count("auth") = 1

\* C32: when no valid token can be obtained the call posts no update and
\* leaves cached_ip unchanged, and the next call with the same address
\* attempts the update again, fetching a token, unless its DNS lookup fails
\* or finds that address.
C32_AuthFailureIsRetriedIfReached ==
    /\ AuthFailureAborts
    /\ (lastUpdate.valid /\ lastUpdate.prev.auth \in {"invalid", "error"}
                         /\ lastUpdate.prev.ipv4 = lastUpdate.ipv4)
          => \/ Count("auth") = 1 /\ Count("fetch") = 1
             \/ lastUpdate.dns \in {"none", "many", "fail"}
             \/ lastUpdate.dns = "one" /\ lastUpdate.found = lastUpdate.ipv4

\* After a call that was left without a token, the next call with the same
\* address, the cache still fresh, fetched a token and posted the update.
C32_Witness ==
    /\ lastUpdate.valid
    /\ lastUpdate.prev.auth = "error"
    /\ lastUpdate.prev.ipv4 = lastUpdate.ipv4
    /\ ~Stale
    /\ lastUpdate.events = <<"auth", "fetch", "post">>
    /\ lastUpdate.post = "ok"
    /\ client.current_ip = lastUpdate.ipv4

\* The most recent poll is the first one of a source with ttl_sec = 0 that
\* extracts with strip, or follows at once on a successful one; the response
\* is a 200.
TtlZeroPoll ==
    /\ lastPoll.valid
    /\ Pre.ttl_sec = 0
    /\ Pre.get_ip_routine = "strip"
    /\ \/ Pre.last_poll_timestamp = None
       \/ Pre.last_successful_poll = lastPoll.t /\ Pre.consecutive_error_count = 0

\* The most recent poll succeeded with the address ip and left the three
\* counters 0.
SucceededWith(ip) ==
    /\ lastPoll.ret = ip
    /\ ~lastPoll.raised
    /\ Post.consecutive_http_error_count = 0
    /\ Post.consecutive_http_429_count = 0
    /\ Post.consecutive_error_count = 0

\* C33: no failure inside a cycle of the driver ends its loop: whatever a
\* cycle runs into (a failed poll, no eligible source, a resolver error, no
\* token, a failed update, any exception), the driver gets back to the head
\* of the loop, where the next cycle starts.
C33_DriverLoopGoesOn == (driver.pc # "top") ~> (driver.pc = "top")

\* The driver is back at the head of its loop after a cycle in which an
\* exception was raised.
C33_Witness ==
    /\ driver.pc = "top"
    /\ driver.cycles = DriverCycles
    /\ driver.raised
    /\ driver.metric = "dyndns.error"

\* C34 as claimed: for a source with ttl_sec = 0 whose response body is
\* "203.0.113.5", the first poll succeeds with 203.0.113.5, a second poll
\* that follows at once is accepted and succeeds again, and the three
\* counters are 0 after both.
C34_TtlZeroDocumentationAddress ==
    TtlZeroPoll
        => /\ lastPoll.requests = 1
           /\ (lastPoll.http = 200 /\ lastPoll.text = Quad(203, 0, 113, 5))
                 => SucceededWith(<<203, 0, 113, 5>>)

\* C34: for a source with ttl_sec = 0 both the first poll and a poll that
\* follows a success at once are accepted; with the body of a globally
\* routable address, "31.16.44.203", they succeed with that address and
\* leave the three counters 0, while the documentation address 203.0.113.5
\* is refused: no address is returned and consecutive_error_count is 1.
C34_TtlZeroGlobalAddress ==
    TtlZeroPoll
        => /\ lastPoll.requests = 1
           /\ (lastPoll.http = 200 /\ lastPoll.text = Quad(31, 16, 44, 203))
                 => SucceededWith(<<31, 16, 44, 203>>)
           /\ (lastPoll.http = 200 /\ lastPoll.text = Quad(203, 0, 113, 5))
                 => /\ lastPoll.ret = NoIp
                    /\ Post.consecutive_error_count = 1

\* The second poll followed the first, successful one at once and succeeded.
C34_Witness ==
    /\ TtlZeroPoll
    /\ Pre.last_successful_poll = lastPoll.t
    /\ Pre.last_poll_timestamp = lastPoll.t
    /\ lastPoll.requests = 1
    /\ lastPoll.text = Quad(31, 16, 44, 203)
    /\ SucceededWith(<<31, 16, 44, 203>>)

\* C35: a poll of a source with the regex-capture strategy that is answered
\* 200 with a body holding the line "Current IP Address: 31.16.44.203"
\* succeeds and returns 31.16.44.203.
C35_RegexCaptureSucceeds ==
    (Attempted /\ Pre.get_ip_routine = "dyndns_re" /\ lastPoll.http = 200
               /\ lastPoll.text = <<Tok.word, Tok.current_ip_address>>
                                     \o Quad(31, 16, 44, 203) \o <<Tok.word>>)
        => /\ lastPoll.ret = <<31, 16, 44, 203>>
           /\ Post.consecutive_error_count = 0

\* C37: in every state of every source at most one of
\* consecutive_http_error_count and consecutive_http_429_count is not 0, and
\* consecutive_error_count is at least their sum.
C37_CountersConsistent ==
    \A i \in 1..Len(sources) :
        /\ \/ sources[i].consecutive_http_error_count = 0
           \/ sources[i].consecutive_http_429_count = 0
        /\ sources[i].consecutive_error_count
              >= sources[i].consecutive_http_error_count
                   + sources[i].consecutive_http_429_count

\* A 500 followed two errors that had left both HTTP counters 0: three
\* errors in a row, one of them counted as HTTP error and none as 429.
C37_Witness ==
    /\ Attempted
    /\ lastPoll.http = 500
    /\ Pre.consecutive_http_429_count = 0
    /\ Pre.consecutive_http_error_count = 0
    /\ Pre.consecutive_error_count = 2
    /\ Post.consecutive_http_error_count = 1
    /\ Post.consecutive_http_429_count = 0
    /\ Post.consecutive_error_count = 3

\* C36: within one invocation of MyPublicIP.get_my_public_ip no source is
\* polled more than once, so that the loop ends after at most as many polls
\* as there are sources, whatever the configuration of the sources and the
\* outcomes of the polls.
C36_NoSourcePolledTwice ==
    inv.active
        => /\ Len(inv.polled) <= Len(sources)
           /\ \A j, k \in 1..Len(inv.polled) :
                 j # k => inv.polled[j] # inv.polled[k]

\* C38: a cycle of the driver in which a public IP was obtained and
\* update_dns_record returned, the address unchanged or the update posted
\* with success, logs the success metric; every other cycle logs the error
\* metric.
C38_SuccessIsRecorded ==
    (driver.pc \in {"sleep", "top"} /\ driver.cycles > 0)
        => (driver.metric = "dyndns.success"
              <=> /\ driver.public_ip # NoIp
                  /\ ~driver.raised
                  /\ lastUpdate.result \in {"unchanged", "updated"})

\* C39: a source returned by the selector is polled, and the poll that
\* follows the selection, at once or later, does not reject it as disabled
\* or as having an unexpired TTL: between selection and poll the source is
\* enabled and its next_poll_timestamp is not after the clock, and every
\* poll of an invocation made exactly one HTTP request.
C39_SelectedSourceIsAttempted ==
    /\ pc = "poll"
          => /\ cur \in 0..(Len(sources) - 1)
             /\ sources[cur + 1].enabled
             /\ sources[cur + 1].next_poll_timestamp # None
             /\ sources[cur + 1].next_poll_timestamp <= now
    /\ inv.active => \A k \in 1..Len(inv.asked) : inv.asked[k] = 1
    /\ (inv.active /\ pc = "select" /\ Len(inv.polled) > 0)
          => /\ lastPoll.valid
             /\ lastPoll.i = inv.polled[Len(inv.polled)]
             /\ lastPoll.requests = 1

\* Both sources of a list were selected and polled in one invocation, the
\* first poll failing, the second made a second later.
C39_Witness ==
    /\ inv.active
    /\ Len(sources) = 2
    /\ Len(inv.polled) = 2
    /\ inv.polled[1] # inv.polled[2]
    /\ inv.asked = <<1, 1>>
    /\ lastPoll.valid
    /\ lastPoll.i = inv.polled[2]
    /\ lastPoll.t > sources[inv.polled[1]].last_poll_timestamp

====
